---- MODULE Spec2Model ----
(***************************************************************************)
(* OpenTapWall: the data layer of the tap-wall backend.                    *)
(*                                                                         *)
(*   app/db.py            engine, module-level create_all, the lightweight *)
(*                        migration                                        *)
(*   app/models.py        Beer, BeerUpdate, DisplaySettings, StoredImage   *)
(*   app/crud.py          the Beer repository                              *)
(*   app/routers/beers.py the /beers endpoints and the beer image upload   *)
(*   app/main.py          seeding, /settings, /settings/logo, /images/{id} *)
(*                                                                         *)
(* Conventions.  An optional value is a sequence of length at most one:    *)
(* None is <<>> and a present value v is <<v>>.  A decimal (abv, og, sg)   *)
(* is held in tenths (5.2 is 52).  A string that the code inspects         *)
(* character by character (a content type, a form field handed to int() or *)
(* float()) is a sequence of one-character strings.  An uploaded payload   *)
(* is a record [tag, len]: the code only measures and stores it.           *)
(* StoredImage.created_at is a clock reading no handler reads back; it is  *)
(* left out.                                                               *)
(***************************************************************************)
EXTENDS Integers, Sequences, FiniteSets, TLC

VARIABLES
    phase,          \* "down" | "imported" (app.db imported) | "serving"
    modelsLoaded,   \* whether "from . import models" succeeded in this process
    dmlAutocommit,  \* whether the driver persists a DML statement that is never committed
    schema,         \* table name -> set of column names ({}: no such table)
    settings,       \* displaysettings rows: id -> row
    beers,          \* beer rows: id -> row
    images,         \* storedimage rows: id -> row
    mig,            \* what the last run of _lightweight_migrate did
    resp            \* the last response a handler gave

vars == <<phase, modelsLoaded, dmlAutocommit, schema, settings, beers, images, mig, resp>>

----------------------------------------------------------------------------
(* Bounds of the model *)

\* beer ids the model lets a create reach (seeding always takes 1..3)
MaxBeerId == 3

\* storedimage rows the model lets uploads add
MaxImages == 2

----------------------------------------------------------------------------
(* Values *)

None == <<>>

Some(v) == <<v>>

IsNone(o) == o = <<>>

Max(S) == CHOOSE x \in S : \A y \in S : y <= x

\* a function with one more (or one replaced) key
Put(f, k, v) == [x \in (DOMAIN f) \cup {k} |-> IF x = k THEN v ELSE f[x]]

\* a function with one key removed
Drop(f, k) == [x \in (DOMAIN f) \ {k} |-> f[x]]

EmptyTable == [x \in {} |-> x]

----------------------------------------------------------------------------
(* app/models.py: the declared schema *)

TableNames == {"beer", "displaysettings", "storedimage"}

\* BeerBase: tap_number and name are required, the rest Optional
BeerBaseFields == {"tap_number", "name", "style", "abv", "og", "sg", "ibu", "ebc"}

\* class Beer(BeerBase, table=True): the columns the ORM reads and writes
BeerColumns == BeerBaseFields \cup {"id", "image_id"}

\* "tap_number: int" and "name: str": columns created NOT NULL
BeerNotNull == {"tap_number", "name"}

\* class BeerUpdate: every field Optional with default None
BeerUpdateFields == {"tap_number", "name", "style", "abv", "og", "sg", "ibu", "ebc"}

\* class DisplaySettings(table=True)
DisplaySettingsColumns == {"id", "title", "logo_image_id"}

\* class StoredImage(table=True)
StoredImageColumns == {"id", "kind", "ref_id", "content_type", "data", "created_at"}

\* DisplaySettings.id: Field(default=1, primary_key=True)
SingletonId == 1

\* DisplaySettings.title: Field(default=...)
DefaultTitle == "What's on Tap"

\* SQLModel.metadata, once app.models is imported
ModelColumns(t) ==
    CASE t = "beer" -> BeerColumns
      [] t = "displaysettings" -> DisplaySettingsColumns
      [] t = "storedimage" -> StoredImageColumns

\* a DisplaySettings() built with the field defaults
NewDisplaySettings == [id |-> SingletonId, title |-> DefaultTitle, logo_image_id |-> None]

----------------------------------------------------------------------------
(* app/db.py: create_all and the lightweight migration *)

\* SQLModel.metadata.create_all(engine): creates each declared table that is
\* missing, and never alters an existing one.  With app.models not imported
\* the metadata is empty.
CreateAll(sch, loaded) ==
    [t \in TableNames |-> IF sch[t] = {} /\ loaded THEN ModelColumns(t) ELSE sch[t]]

\* the statements of _lightweight_migrate that write
Steps == <<"create_all", "add_image", "add_image_id", "create_displaysettings",
           "add_logo_image_id", "insert_singleton", "create_storedimage">>

StepSet == {Steps[i] : i \in 1..Len(Steps)}

\* the ALTER TABLE ... ADD COLUMN statements, each in a try/except of its own
ColumnAdds == {"add_image", "add_image_id", "add_logo_image_id"}

\* no storage fault in this run
NoFault == "none"

\* the columns the INSERT of the singleton row names
InsertColumns == {"id", "title", "logo", "logo_image_id"}

\* the columns of the raw CREATE TABLE IF NOT EXISTS displaysettings
RawDisplaySettingsColumns == {"id", "title", "logo", "logo_image_id"}

\* the columns of the raw CREATE TABLE IF NOT EXISTS storedimage
RawStoredImageColumns == {"id", "kind", "ref_id", "content_type", "data", "created_at"}

\* the run's state: the database, the statements executed so far, those that
\* failed, the warnings logged, whether the outer handler was reached, whether
\* an exception left the function, and the database as it was when the first
\* DML statement opened a transaction (<<>>: none opened)
MigStart(sch, st) ==
    [schema |-> sch, settings |-> st, trace |-> <<>>, failed |-> {}, warnings |-> 0,
     aborted |-> FALSE, raised |-> FALSE, txn |-> <<>>]

\* whether statement `step` fails: the injected storage fault, or SQLite
\* refusing an INSERT that names a column the table does not have
StepFails(m, step, fault) ==
    \/ fault = step
    \/ step = "insert_singleton" /\ ~(InsertColumns \subseteq m.schema["displaysettings"])

\* every statement in a try/except of its own: no failure ends the run
OnFailure_AlwaysContinue(m, step) ==
    [m EXCEPT !.failed = @ \cup {step}, !.warnings = @ + 1]

\* "except SQLAlchemyError as e: logging.warning(...)" around a column add:
\* the run goes on.  Any other failure reaches the outer
\* "except (SQLAlchemyError, OSError)": one warning, and the function returns.
OnFailure(m, step) ==
    IF step \in ColumnAdds
    THEN [m EXCEPT !.failed = @ \cup {step}, !.warnings = @ + 1]
    ELSE [m EXCEPT !.failed = @ \cup {step}, !.warnings = @ + 1, !.aborted = TRUE]

\* one statement: skipped once the run is aborted or when its guard is false
Exec(m, step, guard, fault, done) ==
    IF m.aborted \/ ~guard THEN m
    ELSE LET m1 == [m EXCEPT !.trace = Append(@, step)]
         IN  IF StepFails(m1, step, fault) THEN OnFailure(m1, step) ELSE done

WithSchema(m, step, t, cols) ==
    [m EXCEPT !.trace = Append(@, step), !.schema = [@ EXCEPT ![t] = cols]]

\* lines 49-52
StepCreateAll(m, loaded, fault) ==
    Exec(m, "create_all", m.schema["beer"] = {}, fault,
         [m EXCEPT !.trace = Append(@, "create_all"),
                   !.schema = CreateAll(@, loaded)])

\* lines 54-62
StepAddImage(m, fault) ==
    Exec(m, "add_image", m.schema["beer"] # {} /\ "image" \notin m.schema["beer"], fault,
         WithSchema(m, "add_image", "beer", m.schema["beer"] \cup {"image"}))

\* lines 63-68; existing_cols was read before the first ALTER
StepAddImageId(m, before, fault) ==
    Exec(m, "add_image_id", before # {} /\ "image_id" \notin before, fault,
         WithSchema(m, "add_image_id", "beer", m.schema["beer"] \cup {"image_id"}))

\* line 70
StepCreateDisplaySettings(m, fault) ==
    Exec(m, "create_displaysettings", TRUE, fault,
         WithSchema(m, "create_displaysettings", "displaysettings",
                    IF m.schema["displaysettings"] = {} THEN RawDisplaySettingsColumns
                    ELSE m.schema["displaysettings"]))

\* lines 71-77
StepAddLogoImageId(m, fault) ==
    Exec(m, "add_logo_image_id", "logo_image_id" \notin m.schema["displaysettings"], fault,
         WithSchema(m, "add_logo_image_id", "displaysettings",
                    m.schema["displaysettings"] \cup {"logo_image_id"}))

\* the INSERT without the SELECT before it and without the fixed id
StepInsertSingleton_AutoId(m, fault) ==
    Exec(m, "insert_singleton", TRUE, fault,
         [m EXCEPT !.trace = Append(@, "insert_singleton"),
                   !.txn = <<[schema |-> m.schema, settings |-> m.settings]>>,
                   !.settings = Put(@, Max(DOMAIN @ \cup {0}) + 1, NewDisplaySettings)])

\* lines 78-80: the first DML statement of the connection opens a transaction
StepInsertSingleton(m, fault) ==
    Exec(m, "insert_singleton", SingletonId \notin DOMAIN m.settings, fault,
         [m EXCEPT !.trace = Append(@, "insert_singleton"),
                   !.txn = <<[schema |-> m.schema, settings |-> m.settings]>>,
                   !.settings = Put(@, SingletonId, NewDisplaySettings)])

\* line 82
StepCreateStoredImage(m, fault) ==
    Exec(m, "create_storedimage", TRUE, fault,
         WithSchema(m, "create_storedimage", "storedimage",
                    IF m.schema["storedimage"] = {} THEN RawStoredImageColumns
                    ELSE m.schema["storedimage"]))

\* leaving "with engine.connect() as conn": nothing commits, so what ran inside
\* the transaction the INSERT opened survives only under a driver that
\* autocommits
CloseConnection(m, autocommit) ==
    IF m.txn = <<>> \/ autocommit THEN m
    ELSE [m EXCEPT !.schema = m.txn[1].schema, !.settings = m.txn[1].settings]

\* _lightweight_migrate()
LightweightMigrate(sch, st, loaded, autocommit, fault) ==
    LET m0 == MigStart(sch, st)
        m1 == StepCreateAll(m0, loaded, fault)
        m2 == StepAddImage(m1, fault)
        m3 == StepAddImageId(m2, m1.schema["beer"], fault)
        m4 == StepCreateDisplaySettings(m3, fault)
        m5 == StepAddLogoImageId(m4, fault)
        m6 == StepInsertSingleton(m5, fault)
        m7 == StepCreateStoredImage(m6, fault)
    IN  CloseConnection(m7, autocommit)

\* what the run leaves for the log
MigRecord(m, fault, rerun) ==
    [trace |-> m.trace, failed |-> m.failed, warnings |-> m.warnings,
     raised |-> m.raised, fault |-> fault, rerun |-> rerun]

NoRun ==
    [trace |-> <<>>, failed |-> {}, warnings |-> 0, raised |-> FALSE, fault |-> NoFault,
     rerun |-> FALSE]

----------------------------------------------------------------------------
(* Responses *)

\* op, HTTP status, the id the request named (0: none), and the entities returned
Response(op, status, id, body) == [op |-> op, status |-> status, id |-> id, body |-> body]

NoResponse == Response("none", 0, 0, <<>>)

\* an exception that is no HTTPException: the generic server error
ServerError(op, id) == Response(op, 500, id, <<>>)

\* whether the ORM's statements for table t can run: it names every column of
\* the mapped class
OrmReady(sch, t) == ModelColumns(t) \subseteq sch[t]

----------------------------------------------------------------------------
(* app/crud.py *)

\* the rowid SQLite gives the next INSERT into an INTEGER PRIMARY KEY table
NextId(table) == Max(DOMAIN table \cup {0}) + 1

TapOf(row) == row["tap_number"][1]

\* the sequences of the ids `ids` in which no row comes before a row of a
\* smaller tap_number: any row of the least tap_number first, then the rest
RECURSIVE SortedFrom(_, _)
SortedFrom(bs, ids) ==
    IF ids = {} THEN {<<>>}
    ELSE LET first == {m \in ids : \A x \in ids : TapOf(bs[m]) <= TapOf(bs[x])}
         IN  UNION {{<<m>> \o s : s \in SortedFrom(bs, ids \ {m})} : m \in first}

\* "ORDER BY beer.id": the one sequence of the ids in ascending order
OrderedByTap_ById(bs) ==
    LET n == Cardinality(DOMAIN bs)
    IN  {s \in [1..n -> DOMAIN bs] : \A i, j \in 1..n : i < j => s[i] < s[j]}

\* the orders "ORDER BY beer.tap_number" may return the rows in: rows with the
\* same tap_number come in an order SQLite does not fix
OrderedByTap(bs) == SortedFrom(bs, DOMAIN bs)

\* OFFSET: a negative offset is no offset
Offset(s, skip) == IF skip <= 0 THEN s ELSE SubSeq(s, skip + 1, Len(s))

\* LIMIT: a negative limit is no limit
Limit(s, limit) ==
    IF limit < 0 \/ limit >= Len(s) THEN s ELSE SubSeq(s, 1, limit)

\* the rows behind a sequence of ids
Rows(bs, ids) == [i \in DOMAIN ids |-> bs[ids[i]]]

\* get_beers: the results the statement may return
GetBeers(bs, skip, limit) ==
    {Rows(bs, Limit(Offset(s, skip), limit)) : s \in OrderedByTap(bs)}

\* get_beer: the row, or the 404
BeerExists(bs, beer_id) == beer_id \in DOMAIN bs

\* a DELETE without its WHERE clause
DeleteRow_All(bs, beer_id) == EmptyTable

\* session.delete(beer); session.commit()
DeleteRow(bs, beer_id) == Drop(bs, beer_id)

\* BeerCreate validation: the required fields are there and not null
BeerCreateValid(payload) ==
    \A f \in BeerNotNull : f \in DOMAIN payload /\ ~IsNone(payload[f])

\* Beer(**beer_in.model_dump()): the BeerBase fields of the payload, the
\* missing ones at their default None; id and image_id are not BeerCreate's
NewBeer(payload, id) ==
    [f \in BeerColumns |->
        IF f = "id" THEN Some(id)
        ELSE IF f \in BeerBaseFields /\ f \in DOMAIN payload THEN payload[f]
        ELSE None]

\* model_dump() without exclude_unset: every field of BeerUpdate, the unset
\* ones at their default None
ModelDumpExcludeUnset_All(payload) ==
    [k \in BeerUpdateFields |-> IF k \in DOMAIN payload THEN payload[k] ELSE None]

\* BeerUpdate(...).model_dump(exclude_unset=True): the keys the request carried
\* that are fields of BeerUpdate
ModelDumpExcludeUnset(payload) ==
    [k \in (DOMAIN payload) \cap BeerUpdateFields |-> payload[k]]

\* for key, value in beer_data.items(): setattr(beer, key, value)
SetAttrs(row, data) ==
    [f \in DOMAIN row |-> IF f \in DOMAIN data THEN data[f] ELSE row[f]]

\* a beer table without NOT NULL constraints
BeerRowAccepted_Always(row) == TRUE

\* the NOT NULL columns of beer hold a value
BeerRowAccepted(row) == \A f \in BeerNotNull : ~IsNone(row[f])

----------------------------------------------------------------------------
(* the uploads: app/routers/beers.py upload_image, app/main.py upload_logo *)

\* the size cap of both upload handlers
MaxUploadBytes == 1000000

ImagePrefix == <<"i", "m", "a", "g", "e", "/">>

\* str.startswith
StartsWith(s, prefix) ==
    Len(s) >= Len(prefix) /\ SubSeq(s, 1, Len(prefix)) = prefix

\* the upload checks without the size cap
UploadRefusal_NoCap(content_type, data) ==
    IF IsNone(content_type) THEN 500
    ELSE IF ~StartsWith(content_type[1], ImagePrefix) THEN 400
    ELSE 200

\* the status an upload is refused with before the database is touched
\* (200: not refused); a request without a content type has content_type None
UploadRefusal(content_type, data) ==
    IF IsNone(content_type) THEN 500
    ELSE IF ~StartsWith(content_type[1], ImagePrefix) THEN 400
    ELSE IF data.len > MaxUploadBytes THEN 413
    ELSE 200

\* an upload that writes over the newest stored image instead of adding a row
NewImageId_Reuse(imgs) == Max(DOMAIN imgs \cup {1})

\* session.add(img); session.flush(): the new row's id
NewImageId(imgs) == NextId(imgs)

\* StoredImage(kind=..., ref_id=..., content_type=..., data=...)
NewImage(id, kind, ref_id, content_type, data) ==
    [id |-> id, kind |-> kind, ref_id |-> ref_id, content_type |-> content_type,
     data |-> data]

----------------------------------------------------------------------------
(* app/routers/beers.py: create_beer_form *)

Digits == <<"0", "1", "2", "3", "4", "5", "6", "7", "8", "9">>

IsDigit(c) == \E d \in 1..10 : Digits[d] = c

DigitValue(c) == (CHOOSE d \in 1..10 : Digits[d] = c) - 1

IsDigits(s) == Len(s) > 0 /\ \A i \in 1..Len(s) : IsDigit(s[i])

RECURSIVE DecimalValue(_)
DecimalValue(s) ==
    IF s = <<>> THEN 0
    ELSE 10 * DecimalValue(SubSeq(s, 1, Len(s) - 1)) + DigitValue(s[Len(s)])

\* int(val) on an unsigned decimal literal: None stands for ValueError
CastInt(s) == IF IsDigits(s) THEN Some(DecimalValue(s)) ELSE None

\* float(val), in tenths, on "d+" and "d+.d": None stands for ValueError
CastFloat(s) ==
    IF IsDigits(s) THEN Some(10 * DecimalValue(s))
    ELSE IF /\ Len(s) >= 3
            /\ s[Len(s) - 1] = "."
            /\ IsDigits(SubSeq(s, 1, Len(s) - 2))
            /\ IsDigit(s[Len(s)])
         THEN Some(10 * DecimalValue(SubSeq(s, 1, Len(s) - 2)) + DigitValue(s[Len(s)]))
    ELSE None

\* fnum(val, float)
FnumFloat(val) == IF IsNone(val) \/ val = Some(<<>>) THEN None ELSE CastFloat(val[1])

\* fnum(val, int)
FnumInt(val) == IF IsNone(val) \/ val = Some(<<>>) THEN None ELSE CastInt(val[1])

\* "style or None"
StyleOrNone(style) == IF style = Some("") THEN None ELSE style

\* models.BeerCreate(tap_number=..., name=..., style=..., abv=..., ibu=..., ebc=...)
FormToCreate(form) ==
    [tap_number |-> Some(form.tap_number), name |-> Some(form.name),
     style |-> StyleOrNone(form.style), abv |-> FnumFloat(form.abv),
     ibu |-> FnumInt(form.ibu), ebc |-> FnumInt(form.ebc)]

----------------------------------------------------------------------------
(* Inputs *)

Chars(a, b, c) == <<a, b, c>>

PNG == <<"i", "m", "a", "g", "e", "/", "p", "n", "g">>

TEXT == <<"t", "e", "x", "t", "/", "p", "l", "a", "i", "n">>

BARE == <<"i", "m", "a", "g", "e">>

\* the content types requests carry: a request may carry none
ContentTypes == {Some(PNG), Some(TEXT), Some(BARE), None}

\* the payloads requests carry: two within the cap (one exactly at it), one over
SmallPayload == [tag |-> "a", len |-> 3]

CapPayload == [tag |-> "b", len |-> MaxUploadBytes]

OverCapPayload == [tag |-> "c", len |-> MaxUploadBytes + 1]

Payloads == {SmallPayload, CapPayload, OverCapPayload}

\* the three sample beers of seed_data
SampleBeer(i) ==
    CASE i = 1 -> [tap_number |-> Some(1), name |-> Some("Pale Ale"), style |-> Some("APA"),
                   abv |-> Some(52), ibu |-> Some(35), ebc |-> Some(12)]
      [] i = 2 -> [tap_number |-> Some(2), name |-> Some("Stout"), style |-> Some("Dry Stout"),
                   abv |-> Some(45), ibu |-> Some(40), ebc |-> Some(80)]
      [] i = 3 -> [tap_number |-> Some(3), name |-> Some("IPA"), style |-> Some("West Coast IPA"),
                   abv |-> Some(65), ibu |-> Some(60), ebc |-> Some(18)]

SampleCount == 3

\* JSON bodies of POST /beers: the spec's own example, the same with keys that
\* are no field of BeerCreate, and two that lack a required value
CreatePayloads ==
    {[tap_number |-> Some(1), name |-> Some("Pale Ale")],
     [tap_number |-> Some(1), name |-> Some("Pale Ale"), style |-> None,
      id |-> Some(9), image_id |-> Some(9)],
     [tap_number |-> Some(2)],
     [tap_number |-> None, name |-> Some("Stout")]}

\* JSON bodies of PATCH /beers/{id}
UpdatePayloads ==
    {EmptyTable,
     [style |-> Some("Lager")],
     [style |-> None],
     [style |-> Some("Lager"), id |-> Some(9), image_id |-> Some(9)],
     [name |-> None, style |-> Some("Lager")],
     [tap_number |-> None]}

\* form posts of POST /beers/create: one whose numbers all fail to parse, one
\* whose numbers all parse
CoercedForm ==
    [tap_number |-> 1, name |-> "Pale Ale", style |-> Some(""),
     abv |-> Some(Chars("a", "b", "c")), ibu |-> Some(Chars("5", ".", "2")), ebc |-> None]

NumericForm ==
    [tap_number |-> 1, name |-> "Pale Ale", style |-> Some("APA"),
     abv |-> Some(Chars("5", ".", "2")), ibu |-> Some(<<"3", "5">>), ebc |-> Some(<<"1", "2">>)]

\* JSON bodies of PATCH /settings
DisplaySettingsUpdateFields == {"title"}

SettingsPayloads ==
    {EmptyTable,
     [title |-> Some("Taps")],
     [title |-> Some("Taps"), id |-> Some(2), logo_image_id |-> Some(9)]}

\* the ids requests name: every id a row can have, and one beyond
BeerIds == 1..(MaxBeerId + 1)

ImageIds == 1..(MaxImages + 1)

\* the ids the update requests name: two beers, and an id no beer has
EditedIds == {1, 2, MaxBeerId + 1}

\* the <<skip, limit>> of the list requests: the defaults, and negative ones
ListQueries == {<<0, 100>>, <<-1, 1>>, <<1, -1>>, <<1, 2>>}

\* the storage faults a run of the migration may meet
Faults == StepSet \cup {NoFault}

----------------------------------------------------------------------------
(* Startup: app/db.py at import, then main.py's startup event *)

\* lines 28-34 and 89 of db.py: create_all, then the migration
DbImport(loaded, fault) ==
    /\ phase = "down"
    /\ LET m == LightweightMigrate(CreateAll(schema, loaded), settings, loaded,
                                   dmlAutocommit, fault)
       IN  /\ schema' = m.schema
           /\ settings' = m.settings
           /\ mig' = MigRecord(m, fault, FALSE)
           /\ phase' = IF m.raised THEN "down" ELSE "imported"
    /\ modelsLoaded' = loaded
    /\ resp' = NoResponse
    /\ UNCHANGED <<dmlAutocommit, beers, images>>

\* _lightweight_migrate() called once more in the same process
Migrate(fault) ==
    /\ phase = "imported"
    /\ LET m == LightweightMigrate(schema, settings, modelsLoaded, dmlAutocommit, fault)
       IN  /\ schema' = m.schema
           /\ settings' = m.settings
           /\ mig' = MigRecord(m, fault, TRUE)
           /\ phase' = IF m.raised THEN "down" ELSE "imported"
    /\ UNCHANGED <<modelsLoaded, dmlAutocommit, beers, images, resp>>

\* seeding that tops up a table holding fewer rows than the samples
ShouldSeed_Fewer(bs) == Cardinality(DOMAIN bs) < SampleCount

\* "if not existing": the table has no row
ShouldSeed(bs) == DOMAIN bs = {}

\* session.add_all([...]); session.commit()
Seeded(bs) ==
    LET first == NextId(bs)
    IN  [id \in (DOMAIN bs) \cup (first..(first + SampleCount - 1)) |->
            IF id \in DOMAIN bs THEN bs[id] ELSE NewBeer(SampleBeer(id - first + 1), id)]

\* main.py: importing app.models, then seed_data on startup.  Without the
\* models, or with a beer table the ORM cannot read, the process ends.
SeedData ==
    /\ phase = "imported"
    /\ IF modelsLoaded /\ OrmReady(schema, "beer")
       THEN /\ phase' = "serving"
            /\ beers' = IF ShouldSeed(beers) THEN Seeded(beers) ELSE beers
       ELSE /\ phase' = "down"
            /\ UNCHANGED beers
    /\ UNCHANGED <<modelsLoaded, dmlAutocommit, schema, settings, images, mig, resp>>

\* the process stops; the database file stays
Shutdown ==
    /\ phase = "serving"
    /\ phase' = "down"
    /\ resp' = NoResponse
    /\ UNCHANGED <<modelsLoaded, dmlAutocommit, schema, settings, beers, images, mig>>

----------------------------------------------------------------------------
(* The handlers *)

Frame == UNCHANGED <<phase, modelsLoaded, dmlAutocommit, schema, mig>>

Refuse(r) == resp' = r /\ UNCHANGED <<settings, beers, images>>

\* GET /beers
ListBeers(skip, limit) ==
    /\ phase = "serving"
    /\ Frame
    /\ IF ~OrmReady(schema, "beer") THEN Refuse(ServerError("list", 0))
       ELSE \E r \in GetBeers(beers, skip, limit) :
                Refuse(Response("list", 200, 0, r))

\* GET /beers/{beer_id}
ReadBeer(beer_id) ==
    /\ phase = "serving"
    /\ Frame
    /\ IF ~OrmReady(schema, "beer") THEN Refuse(ServerError("get", beer_id))
       ELSE IF ~BeerExists(beers, beer_id) THEN Refuse(Response("get", 404, beer_id, <<>>))
       ELSE Refuse(Response("get", 200, beer_id, <<beers[beer_id]>>))

\* crud.create_beer
CreateBeer(op, status, payload) ==
    IF ~OrmReady(schema, "beer") THEN Refuse(ServerError(op, 0))
    ELSE /\ NextId(beers) <= MaxBeerId
         /\ LET beer == NewBeer(payload, NextId(beers))
            IN  /\ beers' = Put(beers, NextId(beers), beer)
                /\ resp' = Response(op, status, NextId(beers), <<beer>>)
         /\ UNCHANGED <<settings, images>>

\* POST /beers
AddBeer(payload) ==
    /\ phase = "serving"
    /\ Frame
    /\ IF ~BeerCreateValid(payload) THEN Refuse(Response("create", 422, 0, <<>>))
       ELSE CreateBeer("create", 201, payload)

\* POST /beers/create
CreateBeerForm(form) ==
    /\ phase = "serving"
    /\ Frame
    /\ CreateBeer("form", 200, FormToCreate(form))

\* PATCH /beers/{beer_id}
EditBeer(beer_id, payload) ==
    /\ phase = "serving"
    /\ Frame
    /\ IF ~OrmReady(schema, "beer") THEN Refuse(ServerError("update", beer_id))
       ELSE IF ~BeerExists(beers, beer_id)
       THEN Refuse(Response("update", 404, beer_id, <<>>))
       ELSE LET beer == SetAttrs(beers[beer_id], ModelDumpExcludeUnset(payload))
            IN  IF ~BeerRowAccepted(beer) THEN Refuse(ServerError("update", beer_id))
                ELSE /\ beers' = [beers EXCEPT ![beer_id] = beer]
                     /\ resp' = Response("update", 200, beer_id, <<beer>>)
                     /\ UNCHANGED <<settings, images>>

\* DELETE /beers/{beer_id}
RemoveBeer(beer_id) ==
    /\ phase = "serving"
    /\ Frame
    /\ IF ~OrmReady(schema, "beer") THEN Refuse(ServerError("delete", beer_id))
       ELSE IF ~BeerExists(beers, beer_id)
       THEN Refuse(Response("delete", 404, beer_id, <<>>))
       ELSE /\ beers' = DeleteRow(beers, beer_id)
            /\ resp' = Response("delete", 204, beer_id, <<>>)
            /\ UNCHANGED <<settings, images>>

\* POST /beers/upload-image/{beer_id}
UploadImage(beer_id, content_type, data) ==
    /\ phase = "serving"
    /\ Frame
    /\ IF UploadRefusal(content_type, data) # 200
       THEN Refuse(Response("upload", UploadRefusal(content_type, data), beer_id, <<>>))
       ELSE IF ~OrmReady(schema, "beer") \/ ~OrmReady(schema, "storedimage")
       THEN Refuse(ServerError("upload", beer_id))
       ELSE IF ~BeerExists(beers, beer_id)
       THEN Refuse(Response("upload", 404, beer_id, <<>>))
       ELSE /\ Cardinality(DOMAIN images) < MaxImages
            /\ LET img == NewImage(NewImageId(images), "beer", beers[beer_id]["id"],
                                   content_type[1], data)
                   beer == [beers[beer_id] EXCEPT !["image_id"] = Some(img.id)]
               IN  /\ images' = Put(images, img.id, img)
                   /\ beers' = [beers EXCEPT ![beer_id] = beer]
                   /\ resp' = Response("upload", 200, beer_id, <<beer>>)
            /\ UNCHANGED settings

\* PATCH /settings
UpdateSettings(payload) ==
    /\ phase = "serving"
    /\ Frame
    /\ IF ~OrmReady(schema, "displaysettings") THEN Refuse(ServerError("settings", 0))
       ELSE LET row == IF SingletonId \in DOMAIN settings THEN settings[SingletonId]
                       ELSE NewDisplaySettings
                new == [f \in DOMAIN row |->
                          IF f \in (DOMAIN payload) \cap DisplaySettingsUpdateFields
                          THEN payload[f][1] ELSE row[f]]
            IN  /\ settings' = Put(settings, new.id, new)
                /\ resp' = Response("settings", 200, 0, <<new>>)
                /\ UNCHANGED <<beers, images>>

\* POST /settings/logo
UploadLogo(content_type, data) ==
    /\ phase = "serving"
    /\ Frame
    /\ IF UploadRefusal(content_type, data) # 200
       THEN Refuse(Response("logo", UploadRefusal(content_type, data), 0, <<>>))
       ELSE IF ~OrmReady(schema, "displaysettings") \/ ~OrmReady(schema, "storedimage")
       THEN Refuse(ServerError("logo", 0))
       ELSE /\ Cardinality(DOMAIN images) < MaxImages
            /\ LET row == IF SingletonId \in DOMAIN settings THEN settings[SingletonId]
                          ELSE NewDisplaySettings
                   img == NewImage(NewImageId(images), "logo", None, content_type[1], data)
                   new == [row EXCEPT !.logo_image_id = Some(img.id)]
               IN  /\ images' = Put(images, img.id, img)
                   /\ settings' = Put(settings, new.id, new)
                   /\ resp' = Response("logo", 200, 0, <<new>>)
            /\ UNCHANGED beers

\* GET /images/{image_id}
GetImage(image_id) ==
    /\ phase = "serving"
    /\ Frame
    /\ IF ~OrmReady(schema, "storedimage") THEN Refuse(ServerError("image", image_id))
       ELSE IF image_id \notin DOMAIN images
       THEN Refuse(Response("image", 404, image_id, <<>>))
       ELSE Refuse(Response("image", 200, image_id,
                            <<[content_type |-> images[image_id].content_type,
                               data |-> images[image_id].data]>>))

----------------------------------------------------------------------------
(* Specifications *)

NoTables == [t \in TableNames |-> {}]

\* the columns of beer before the image columns came
LegacyBeerColumns == BeerBaseFields \cup {"id"}

\* database files earlier versions left behind: none at all; beer alone,
\* without and with the image columns; displaysettings as a raw table, without
\* and with logo_image_id, without and with its row
LegacySchemas ==
    {[t \in TableNames |->
        CASE t = "beer" -> b
          [] t = "displaysettings" -> d
          [] t = "storedimage" -> {}] :
        b \in {{}, LegacyBeerColumns, LegacyBeerColumns \cup {"image"},
               LegacyBeerColumns \cup {"image", "image_id"}},
        d \in {{}, {"id", "title", "logo"}, RawDisplaySettingsColumns, DisplaySettingsColumns}}

InitProcess ==
    /\ phase = "down"
    /\ modelsLoaded = FALSE
    /\ beers = EmptyTable
    /\ images = EmptyTable
    /\ mig = NoRun
    /\ resp = NoResponse

\* a database file that does not exist yet, under the driver mode of the
\* pinned build (no autocommit)
Init ==
    /\ InitProcess
    /\ dmlAutocommit = FALSE
    /\ schema = NoTables
    /\ settings = EmptyTable

\* a database file of any prior version, under either driver mode
InitLegacy ==
    /\ InitProcess
    /\ dmlAutocommit \in BOOLEAN
    /\ schema \in LegacySchemas
    /\ settings \in {EmptyTable} \cup
                    {st \in {[i \in {SingletonId} |-> NewDisplaySettings]} :
                        schema["displaysettings"] # {}}

\* the beer repository's writes, with images attached to the first beer
Next ==
    \/ DbImport(TRUE, NoFault)
    \/ SeedData
    \/ Shutdown
    \/ \E id \in {1, MaxBeerId + 1} : ReadBeer(id)
    \/ \E p \in CreatePayloads : AddBeer(p)
    \/ CreateBeerForm(CoercedForm)
    \/ \E id \in EditedIds, p \in UpdatePayloads : EditBeer(id, p)
    \/ \E id \in BeerIds : RemoveBeer(id)
    \/ UploadImage(1, Some(PNG), SmallPayload)

Spec == Init /\ [][Next]_vars

\* the beer repository's reads
NextReads ==
    \/ DbImport(TRUE, NoFault)
    \/ SeedData
    \/ Shutdown
    \/ \E q \in ListQueries : ListBeers(q[1], q[2])
    \/ CreateBeerForm(NumericForm)
    \/ \E id \in {1, 2} : EditBeer(id, [tap_number |-> Some(3)])
    \/ \E id \in BeerIds : RemoveBeer(id)

SpecReads == Init /\ [][NextReads]_vars

\* the image attachment service and the display settings
NextUploads ==
    \/ DbImport(TRUE, NoFault)
    \/ SeedData
    \/ Shutdown
    \/ RemoveBeer(1)
    \/ \E id \in {1, SampleCount + 1}, ct \in ContentTypes, d \in Payloads :
          UploadImage(id, ct, d)
    \/ \E p \in SettingsPayloads : UpdateSettings(p)
    \/ \E ct \in ContentTypes, d \in Payloads : UploadLogo(ct, d)
    \/ \E id \in ImageIds : GetImage(id)

SpecUploads == Init /\ [][NextUploads]_vars

\* startup against any database file, with storage faults
NextMigrate ==
    \/ \E loaded \in BOOLEAN, fault \in Faults : DbImport(loaded, fault)
    \/ \E fault \in Faults : Migrate(fault)
    \/ SeedData
    \/ Shutdown
    \/ \E p \in SettingsPayloads : UpdateSettings(p)
    \/ UploadLogo(Some(PNG), SmallPayload)
    \/ RemoveBeer(1)

SpecMigrate == InitLegacy /\ [][NextMigrate]_vars

----------------------------------------------------------------------------
(* Claims *)

\* a payload that explicitly sets a required field of Beer to null
NullsRequired(payload) ==
    \E f \in {"tap_number", "name"} : f \in DOMAIN payload /\ payload[f] = None

\* the row with exactly the payload's update fields replaced, nulls included
Patched(row, payload) ==
    [f \in DOMAIN row |->
        IF f \in {"tap_number", "name", "style", "abv", "og", "sg", "ibu", "ebc"}
           /\ f \in DOMAIN payload
        THEN payload[f] ELSE row[f]]

\* C1 as stated: for every existing beer and every payload, update sets
\* exactly the fields the payload carries (nulls clear) and leaves every other
\* field, id and image_id included, and every other beer unchanged.
C1_UpdateExactlyPresent ==
    [][\A id \in EditedIds, p \in UpdatePayloads :
          (resp'.op = "update" /\ resp'.id = id /\ EditBeer(id, p) /\ id \in DOMAIN beers) =>
              beers' = [beers EXCEPT ![id] = Patched(beers[id], p)]]_vars

\* C1, amended: for every existing beer and every payload that does not set
\* tap_number or name to null, update answers 200 and sets exactly the update
\* fields the payload carries (an explicit null clears an optional field),
\* leaving every other field, id and image_id included, every other beer and
\* every image unchanged; update(id, {}) changes nothing.  A payload that sets
\* tap_number or name to null is refused with a server error and changes
\* nothing.
C1_UpdateExactlyPresentUnlessRequiredNull ==
    [][\A id \in EditedIds, p \in UpdatePayloads :
          (resp'.op = "update" /\ resp'.id = id /\ EditBeer(id, p) /\ id \in DOMAIN beers) =>
              /\ images' = images
              /\ settings' = settings
              /\ IF NullsRequired(p)
                 THEN beers' = beers /\ resp'.status = 500
                 ELSE /\ beers' = [beers EXCEPT ![id] = Patched(beers[id], p)]
                      /\ resp' = Response("update", 200, id, <<beers'[id]>>)
                      /\ (p = EmptyTable => beers' = beers)]_vars

\* an update has just cleared the style of a beer that keeps its image
C1_Witness ==
    /\ resp.op = "update" /\ resp.status = 200
    /\ resp.body[1]["style"] = None
    /\ resp.body[1]["image_id"] # None
    /\ beers[resp.id] = resp.body[1]

\* C2: once the startup migration has run, displaysettings holds exactly one
\* row, with id 1.
C2_SingletonAfterMigration ==
    mig # NoRun => DOMAIN settings = {1}

\* a content type that starts with "image/"
IsImageType(ct) ==
    /\ ct # None
    /\ Len(ct[1]) >= 6
    /\ SubSeq(ct[1], 1, 6) = <<"i", "m", "a", "g", "e", "/">>

ImagesWellFormed(imgs) ==
    \A i \in DOMAIN imgs :
        IsImageType(Some(imgs[i].content_type)) /\ imgs[i].data.len <= 1000000

NothingWritten ==
    images' = images /\ beers' = beers /\ settings' = settings

\* C3: an upload refused for its content type (400), for a payload over
\* 1,000,000 bytes (413) or for a missing beer (404) writes nothing, and every
\* stored image has a content type starting with "image/" and at most
\* 1,000,000 bytes.
C3_RefusedUploadWritesNothing ==
    [][/\ \A id \in BeerIds, ct \in ContentTypes, d \in Payloads :
             (resp'.op = "upload" /\ resp'.id = id /\ UploadImage(id, ct, d)) =>
                /\ (~IsImageType(ct) => NothingWritten)
                /\ (ct # None /\ ~IsImageType(ct) => resp'.status = 400)
                /\ (IsImageType(ct) /\ d.len > 1000000 => NothingWritten /\ resp'.status = 413)
                /\ (IsImageType(ct) /\ d.len <= 1000000 /\ id \notin DOMAIN beers =>
                        NothingWritten /\ resp'.status = 404)
       /\ \A ct \in ContentTypes, d \in Payloads :
             (resp'.op = "logo" /\ UploadLogo(ct, d)) =>
                /\ (~IsImageType(ct) => NothingWritten)
                /\ (ct # None /\ ~IsImageType(ct) => resp'.status = 400)
                /\ (IsImageType(ct) /\ d.len > 1000000 => NothingWritten /\ resp'.status = 413)
       /\ ImagesWellFormed(images')]_vars

\* an upload has just been refused while images are stored, one of them of
\* exactly 1,000,000 bytes
C3_Witness ==
    /\ resp.op \in {"upload", "logo"}
    /\ resp.status \in {400, 413, 404}
    /\ \E i \in DOMAIN images : images[i].data.len = 1000000

\* C4: an accepted upload adds one StoredImage row holding what was uploaded
\* and points the owner at it; no step changes or removes a stored image; a
\* fetch returns the stored content type and data.  So after two uploads to
\* one beer its image_id is the second image's id and the first is still
\* there, fetchable as uploaded.
C4_UploadsAccumulate ==
    [][/\ \A i \in DOMAIN images : i \in DOMAIN images' /\ images'[i] = images[i]
       /\ \A id \in BeerIds, ct \in ContentTypes, d \in Payloads :
             (resp'.op = "upload" /\ resp'.id = id /\ resp'.status = 200
              /\ UploadImage(id, ct, d)) =>
                \E new \in (DOMAIN images') \ (DOMAIN images) :
                    /\ DOMAIN images' = (DOMAIN images) \cup {new}
                    /\ images'[new] = [id |-> new, kind |-> "beer", ref_id |-> Some(id),
                                       content_type |-> ct[1], data |-> d]
                    /\ beers' = [beers EXCEPT ![id]["image_id"] = Some(new)]
       /\ \A ct \in ContentTypes, d \in Payloads :
             (resp'.op = "logo" /\ resp'.status = 200 /\ UploadLogo(ct, d)) =>
                \E new \in (DOMAIN images') \ (DOMAIN images) :
                    /\ DOMAIN images' = (DOMAIN images) \cup {new}
                    /\ images'[new] = [id |-> new, kind |-> "logo", ref_id |-> None,
                                       content_type |-> ct[1], data |-> d]
                    /\ settings'[1].logo_image_id = Some(new)
       /\ \A i \in ImageIds :
             (resp'.op = "image" /\ resp'.id = i /\ GetImage(i)) =>
                IF i \in DOMAIN images
                THEN resp' = Response("image", 200, i,
                                      <<[content_type |-> images[i].content_type,
                                         data |-> images[i].data]>>)
                ELSE resp'.status = 404]_vars

\* the first of two images uploaded to beer 1 has just been fetched: the beer
\* points at the second, the first holds other data than the second
C4_Witness ==
    /\ resp.op = "image" /\ resp.status = 200 /\ resp.id = 1
    /\ {1, 2} \subseteq DOMAIN images
    /\ images[1].ref_id = Some(1) /\ images[2].ref_id = Some(1)
    /\ images[1].data # images[2].data
    /\ 1 \in DOMAIN beers /\ beers[1]["image_id"] = Some(2)
    /\ resp.body[1].data = images[1].data

DatabaseUnchanged ==
    schema' = schema /\ settings' = settings /\ beers' = beers /\ images' = images

\* C5: a run of the migration directly after a run that met no storage fault
\* raises nothing and leaves the schema and every row as the first run left
\* them: no column, table or displaysettings row is added.
C5_MigrationIdempotent ==
    [][(phase = "imported" /\ mig.fault \notin mig.failed
        /\ \E fault \in Faults : Migrate(fault)) =>
            DatabaseUnchanged /\ ~mig'.raised /\ phase' = "imported"]_vars

\* the migration has just run a second time, on a database whose first run
\* had added the legacy image column and inserted the singleton row
C5_Witness ==
    /\ mig.rerun /\ mig.failed = {}
    /\ phase = "imported"
    /\ "image" \in schema["beer"]
    /\ 1 \in DOMAIN settings
    /\ schema["storedimage"] # {}

FailedAt(i) == mig.trace[i] \in mig.failed

MigrationReturned ==
    ~mig.raised /\ mig.warnings = Cardinality(mig.failed)

TapIn(row) == row["tap_number"][1]

\* what list(skip, limit) must return of the rows bs, with `less` the order
\* asked of consecutive results: rows of the table, none twice, in order,
\* `count` of them, after `skipped` rows that sort no later than any other
ListedAs(body, bs, skipped, count, less(_, _)) ==
    LET ids == {body[i]["id"][1] : i \in 1..Len(body)}
        rest == (DOMAIN bs) \ ids
    IN  /\ \A i \in 1..Len(body) : body[i]["id"][1] \in DOMAIN bs /\ body[i] = bs[body[i]["id"][1]]
        /\ Cardinality(ids) = Len(body)
        /\ \A i \in 1..(Len(body) - 1) : less(TapIn(body[i]), TapIn(body[i + 1]))
        /\ Len(body) = count
        /\ \E before \in SUBSET rest :
              /\ Cardinality(before) = skipped
              /\ \A b \in before, x \in (DOMAIN bs) \ before : TapIn(bs[b]) <= TapIn(bs[x])
              /\ \A a \in rest \ before, x \in ids : TapIn(bs[x]) <= TapIn(bs[a])

Least(a, b) == IF a <= b THEN a ELSE b

AtLeastZero(a) == IF a >= 0 THEN a ELSE 0

Below(a, b) == a < b

NotAbove(a, b) == a <= b

\* C7 as stated: list(skip, limit) returns the beers in strictly ascending
\* tap_number, without the first skip of that order, at most limit of them.
C7_ListStrictlyAscending ==
    [][\A q \in ListQueries :
          (resp'.op = "list" /\ ListBeers(q[1], q[2])) =>
              LET n == Cardinality(DOMAIN beers)
              IN  /\ resp'.status = 200
                  /\ Len(resp'.body) <= q[2]
                  /\ ListedAs(resp'.body, beers, Least(q[1], n), Len(resp'.body), Below)]_vars

\* C7, amended: list(skip, limit) returns the beers in non-decreasing
\* tap_number (beers that share a tap_number in either order), without the
\* first skip of that order and then as many as are left up to limit; a
\* negative skip skips nothing and a negative limit is no limit; an empty
\* table gives the empty sequence.
C7_ListNonDecreasing ==
    [][\A q \in ListQueries :
          (resp'.op = "list" /\ ListBeers(q[1], q[2])) =>
              LET n == Cardinality(DOMAIN beers)
                  skipped == Least(AtLeastZero(q[1]), n)
                  count == IF q[2] < 0 THEN n - skipped ELSE Least(q[2], n - skipped)
              IN  /\ resp'.status = 200
                  /\ ListedAs(resp'.body, beers, skipped, count, NotAbove)]_vars

\* a list has just returned two beers of one tap_number, and a beer with a
\* larger id before one with a smaller id
C7_Witness ==
    /\ resp.op = "list" /\ resp.status = 200
    /\ \E i \in 1..(Len(resp.body) - 1) : TapIn(resp.body[i]) = TapIn(resp.body[i + 1])
    /\ \E i \in 1..(Len(resp.body) - 1) :
          /\ resp.body[i]["id"][1] > resp.body[i + 1]["id"][1]
          /\ TapIn(resp.body[i]) < TapIn(resp.body[i + 1])

\* C8: delete(id) answers 404 and changes nothing when no beer has that id,
\* also right after that beer was deleted; otherwise it answers 204 and removes
\* that beer row alone: every other beer and every stored image stays, and a
\* get or delete of the same id that follows answers 404.
C8_DeleteRemovesExactlyOne ==
    [][/\ resp'.op = "delete" =>
             /\ resp'.status = IF resp'.id \in DOMAIN beers THEN 204 ELSE 404
             /\ beers' = [i \in (DOMAIN beers) \ {resp'.id} |-> beers[i]]
             /\ images' = images
             /\ settings' = settings
       /\ (resp.op = "delete" /\ resp.status = 204 /\ resp'.id = resp.id
           /\ resp'.op \in {"get", "delete"}) => resp'.status = 404]_vars

\* a beer that had an image has just been deleted, then deleted again: other
\* beers and the image are still there
C8_Witness ==
    /\ resp.op = "delete" /\ resp.status = 404
    /\ resp.id \notin DOMAIN beers
    /\ DOMAIN beers # {}
    /\ \E i \in DOMAIN images : images[i].ref_id = Some(resp.id)

\* C9: every stored beer has a tap_number and a name.
C9_RequiredFieldsPresent ==
    \A id \in DOMAIN beers :
        beers[id]["tap_number"] # None /\ beers[id]["name"] # None

\* an update that set a required field to null has just been refused
C9_Witness ==
    /\ resp.op = "update" /\ resp.status = 500
    /\ resp.id \in DOMAIN beers

\* C10: at startup, seeding inserts the three sample beers when the beer
\* table has no row, and otherwise changes nothing.
C10_SeedOnlyWhenEmpty ==
    [][(phase = "imported" /\ phase' = "serving") =>
          /\ images' = images /\ settings' = settings
          /\ IF DOMAIN beers = {}
             THEN /\ DOMAIN beers' = 1..3
                  /\ \A i \in 1..3 :
                        /\ beers'[i]["id"] = Some(i)
                        /\ beers'[i]["tap_number"] = Some(i)
                        /\ beers'[i]["name"] = Some(<<"Pale Ale", "Stout", "IPA">>[i])
                        /\ beers'[i]["image_id"] = None
             ELSE beers' = beers]_vars

\* a restart has just found one beer, changed since it was seeded, and left it
C10_Witness ==
    /\ phase = "serving" /\ resp = NoResponse
    /\ Cardinality(DOMAIN beers) = 1
    /\ \E id \in DOMAIN beers : beers[id]["style"] = Some("Lager")

====
